---- MODULE Spec2Model ----
(***************************************************************************)
(* Model of the tap-to-pay backend (freepay-backend/app):                  *)
(*   - USDCSmartRouter.select_optimal_chain       (circle_integration.py)  *)
(*   - process_circle_payment and CircleAPIClient (circle_integration.py)  *)
(*   - process_coinbase_payment                   (coinbase_integration.py)*)
(*   - FernAPIClient.create_crypto_transfer       (fern_integration.py)    *)
(*   - main.process_payment over FernClient       (main.py, fern_client.py)*)
(*   - the in-memory demo backend                 (demo_backend.py)        *)
(*                                                                         *)
(* Units: fees are in hundredths of a dollar (15.00 -> 1500, 0.01 -> 1),   *)
(* latencies in seconds, payment amounts and balances in whole dollars.    *)
(* Python's None is the string "None" in string-typed places.              *)
(***************************************************************************)
EXTENDS Integers, Sequences, FiniteSets, TLC

VARIABLES
    op,               \* the operation in flight or last completed
    pc,               \* its position: the next await, or "done"
    amount,           \* argument amount of the operation
    priority,         \* argument priority of select_optimal_chain
    available_chains, \* argument / local available_chains
    selected,         \* last return value of select_optimal_chain
    preferred_chain,  \* argument and local preferred_chain of process_circle_payment
    balances,         \* local balances of process_circle_payment (ordered dict)
    endpoint_idx,     \* loop position in possible_endpoints (Fern)
    usd_amount,       \* local usd_amount of main.process_payment
    calls,            \* the external calls and routing steps issued so far, in order
    result,           \* what the operation returned or raised to its caller
    alice_balance,    \* DEMO_CUSTOMERS["alice"]["balance_usd"]
    bob_balance,      \* DEMO_CUSTOMERS["bob"]["balance_usd"]
    alice_tx,         \* DEMO_CUSTOMERS["alice"]["transactions"]
    bob_tx,           \* DEMO_CUSTOMERS["bob"]["transactions"]
    n_req,            \* payment requests handled since the last reset
    last_req,         \* the last demo request handled
    resp,             \* the HTTP response to it
    pending           \* /process-payment requests suspended at the simulated delay

routerVars == <<priority, available_chains, selected>>
adapterVars == <<op, pc, amount, preferred_chain, balances, endpoint_idx,
                 usd_amount, calls, result>>
demoVars == <<alice_balance, bob_balance, alice_tx, bob_tx, n_req, last_req, resp,
              pending>>
vars == <<op, pc, amount, priority, available_chains, selected, preferred_chain,
          balances, endpoint_idx, usd_amount, calls, result,
          alice_balance, bob_balance, alice_tx, bob_tx, n_req, last_req, resp,
          pending>>

None == "None"

(***************************************************************************)
(* Bounds of the model.                                                    *)
(***************************************************************************)
\* longest available_chains list handed to select_optimal_chain directly
MaxChains == 3
\* most entries in the "data" list of a wallet-balance response
MaxBalances == 2
\* most payment requests between two resets of the demo backend
MaxRequests == 2

\* chain names seen by the router: the six of the tables and one outside them
Chains == {"ETH", "MATIC", "ARB", "OP", "BASE", "AVAX", "SOL"}
Priorities == {"cost", "speed", "fastest"}
\* payment amounts of the provider adapters, in dollars
Amounts == {20, 30}

RECURSIVE SeqsUpTo(_, _)
SeqsUpTo(S, n) ==
    IF n = 0 THEN {<<>>}
    ELSE LET shorter == SeqsUpTo(S, n - 1)
         IN  shorter \cup {Append(s, x) : s \in {t \in shorter : Len(t) = n - 1}, x \in S}

Range(s) == {s[i] : i \in 1..Len(s)}

(***************************************************************************)
(* Python helpers.                                                         *)
(***************************************************************************)
\* dict.get(key, default) on a dict modelled as a function
get(d, k, default) == IF k \in DOMAIN d THEN d[k] ELSE default

\* sorted(xs, key=...): a stable sort, smallest key first.  Insert puts x
\* behind every element whose key is not larger, so equal keys keep the
\* order of the input.
RECURSIVE InsertByKey(_, _, _)
InsertByKey(x, s, key) ==
    IF s = <<>> THEN <<x>>
    ELSE IF key[x] < key[Head(s)] THEN <<x>> \o s
    ELSE <<Head(s)>> \o InsertByKey(x, Tail(s), key)

RECURSIVE SortedFrom(_, _, _)
SortedFrom(xs, acc, key) ==
    IF xs = <<>> THEN acc
    ELSE SortedFrom(Tail(xs), InsertByKey(Head(xs), acc, key), key)

sorted(xs, key) == SortedFrom(xs, <<>>, key)

(***************************************************************************)
(* USDCSmartRouter                                                         *)
(***************************************************************************)
chain_fees ==
    [ETH |-> 1500, MATIC |-> 1, ARB |-> 10, OP |-> 10, BASE |-> 5, AVAX |-> 50]

chain_speeds ==
    [ETH |-> 180, MATIC |-> 3, ARB |-> 2, OP |-> 2, BASE |-> 2, AVAX |-> 2]

\* key=lambda x: self.chain_fees.get(x, 999), in hundredths
FeeKey == [x \in Chains |-> get(chain_fees, x, 99900)]

\* key=lambda x: self.chain_speeds.get(x, 999)
SpeedKey == [x \in Chains |-> get(chain_speeds, x, 999)]

\* sorted_chains[-1] in place of sorted_chains[0]
select_optimal_chain_last(amt, chains, prio) ==
    IF chains = <<>> THEN "BASE"
    ELSE IF prio = "cost" THEN sorted(chains, FeeKey)[Len(chains)]
    ELSE sorted(chains, SpeedKey)[Len(chains)]

\* the two keys swapped
select_optimal_chain_mixed(amt, chains, prio) ==
    IF chains = <<>> THEN "BASE"
    ELSE IF prio = "cost" THEN Head(sorted(chains, SpeedKey))
    ELSE Head(sorted(chains, FeeKey))

\* the default taken whenever BASE beats every candidate
select_optimal_chain_default(amt, chains, prio) ==
    IF chains = <<>> \/ "BASE" \notin Range(chains) THEN "BASE"
    ELSE IF prio = "cost" THEN Head(sorted(chains, FeeKey))
    ELSE Head(sorted(chains, SpeedKey))

\* a ranking that turns to the latency for the larger amounts
select_optimal_chain_by_amount(amt, chains, prio) ==
    IF chains = <<>> THEN "BASE"
    ELSE IF prio = "cost" /\ amt < 30 THEN Head(sorted(chains, FeeKey))
    ELSE Head(sorted(chains, SpeedKey))

select_optimal_chain(amt, chains, prio) ==
    IF chains = <<>> THEN "BASE"
    ELSE IF prio = "cost" THEN Head(sorted(chains, FeeKey))
    ELSE Head(sorted(chains, SpeedKey))

(***************************************************************************)
(* HTTP outcomes of the external providers.  status 0 stands for a call    *)
(* that never got an answer (aiohttp raised a ClientError).                *)
(***************************************************************************)
NetworkError == [status |-> 0, body |-> "none"]

\* body kinds of a POST answer: "ok" a JSON object with a "data" object that
\* carries the id; "no_data" a JSON object without "data"; "null_data" a JSON
\* object whose "data" is null; "not_json" a body response.json() rejects
PostBodies == {"ok", "no_data", "null_data", "not_json"}
PostStatuses == {200, 201, 400, 500}
PostOutcomes ==
    {NetworkError} \cup [status : PostStatuses, body : PostBodies]

\* what a called function did: returned val, or raised exc
Returned(v) == [exc |-> None, val |-> v]
Raised(e) == [exc |-> e, val |-> None]

(***************************************************************************)
(* CircleAPIClient                                                         *)
(***************************************************************************)
\* one entry of the "data" list of GET /wallets/{id}/balances
BalanceEntries == [chain : Chains, amount : {5, 20}, currency : {"USD", "EUR"}]

\* balances[chain] = amount on an insertion-ordered dict, kept as a sequence
\* of [chain, amount] items: a key already present keeps its place
RECURSIVE DictSet(_, _, _)
DictSet(d, k, v) ==
    IF d = <<>> THEN <<[chain |-> k, amount |-> v]>>
    ELSE IF Head(d).chain = k THEN <<[chain |-> k, amount |-> v]>> \o Tail(d)
    ELSE <<Head(d)>> \o DictSet(Tail(d), k, v)

RECURSIVE BalancesFrom(_, _)
BalancesFrom(data, acc) ==
    IF data = <<>> THEN acc
    ELSE BalancesFrom(Tail(data),
                      IF Head(data).currency = "USD"
                      THEN DictSet(acc, Head(data).chain, Head(data).amount)
                      ELSE acc)

\* outcomes of the balance GET: no answer, a 200 with a data list, a 200 whose
\* body is not JSON, or another status
BalanceOutcomes ==
    {[status |-> 0, body |-> "none", data |-> <<>>]}
    \cup [status : {200}, body : {"not_json"}, data : {<<>>}]
    \cup [status : {404, 500}, body : {"none"}, data : {<<>>}]
    \cup [status : {200}, body : {"ok"}, data : SeqsUpTo(BalanceEntries, MaxBalances)]

get_wallet_balance(wallet_id, r) ==
    IF r.status = 0 THEN Raised("ClientError")
    ELSE IF r.status = 200
    THEN IF r.body = "not_json" THEN Raised("ContentTypeError")
         ELSE Returned(BalancesFrom(r.data, <<>>))
    ELSE Returned(<<>>)

\* provider-side values of a transfer answer
TransferId(r) == IF r.body = "ok" THEN "tr_1" ELSE None
TransferStatus(r) == IF r.body = "ok" THEN "pending" ELSE None

create_transfer(source_wallet_id, destination_address, amt, blockchain, r) ==
    IF r.status = 0 THEN Raised("ClientError")
    ELSE IF r.status \in {200, 201}
    THEN IF r.body = "not_json" THEN Raised("ContentTypeError")
         ELSE IF r.body = "null_data" THEN Raised("AttributeError")
         ELSE Returned([transfer_id |-> TransferId(r),
                        source_wallet |-> source_wallet_id,
                        destination_wallet |-> destination_address,
                        amount |-> amt,
                        status |-> TransferStatus(r),
                        blockchain |-> blockchain])
    ELSE Raised("Failed to create transfer")

(***************************************************************************)
(* The calls an operation issues, in order.  A transfer- or charge-        *)
(* creating POST is logged with post = TRUE, a call that ended in an       *)
(* exception with raised = TRUE; status and body are the answer it got.    *)
(***************************************************************************)
Call(fn, target, status, body, post, raised) ==
    [fn |-> fn, target |-> target, status |-> status, body |-> body, post |-> post,
     raised |-> raised]

NoResult == [kind |-> "none", value |-> None]
\* a value returned to the caller: a Python dict or a dataclass instance
ReturnDict(d) == [kind |-> "dict", value |-> d]
\* an exception that left the operation
Propagated(e) == [kind |-> "raised", value |-> e]

\* no operation has been called yet: the operations share no state, so a
\* behaviour follows one of them from its call to its return
Idle == pc = "idle"

\* the per-operation variables at the start of a call
Fresh(o, p, amt) ==
    /\ op' = o
    /\ pc' = p
    /\ amount' = amt
    /\ priority' = None
    /\ available_chains' = <<>>
    /\ selected' = None
    /\ balances' = <<>>
    /\ endpoint_idx' = 0
    /\ usd_amount' = 0
    /\ calls' = <<>>
    /\ result' = NoResult

(***************************************************************************)
(* select_optimal_chain called on its own                                  *)
(***************************************************************************)
SelectOptimalChain ==
    /\ Idle
    /\ \E amt \in Amounts, chains \in SeqsUpTo(Chains, MaxChains), prio \in Priorities :
        /\ op' = "select_optimal_chain"
        /\ pc' = "done"
        /\ amount' = amt
        /\ priority' = prio
        /\ available_chains' = chains
        /\ selected' = select_optimal_chain(amt, chains, prio)
        /\ result' = ReturnDict([success |-> TRUE])
        /\ preferred_chain' = None
        /\ balances' = <<>>
        /\ endpoint_idx' = 0
        /\ usd_amount' = 0
        /\ calls' = <<>>
    /\ UNCHANGED demoVars

(***************************************************************************)
(* process_circle_payment                                                  *)
(***************************************************************************)
\* the comprehension without its condition
RECURSIVE ChainsUnfiltered(_, _)
ChainsUnfiltered(bal, amt) ==
    IF bal = <<>> THEN <<>>
    ELSE <<Head(bal).chain>> \o ChainsUnfiltered(Tail(bal), amt)

\* [chain for chain, balance in balances.items() if balance >= amount]
RECURSIVE ChainsWithBalance(_, _)
ChainsWithBalance(bal, amt) ==
    IF bal = <<>> THEN <<>>
    ELSE (IF Head(bal).amount >= amt THEN <<Head(bal).chain>> ELSE <<>>)
         \o ChainsWithBalance(Tail(bal), amt)

\* an except clause that lets network errors through
CircleFailureNarrow(e) ==
    IF e = "ClientError" THEN [kind |-> "raised", value |-> e]
    ELSE [kind |-> "dict",
          value |-> [success |-> FALSE, provider |-> "Circle USDC", error |-> e]]

\* except Exception as e: the failure dict
CircleFailure(e) ==
    ReturnDict([success |-> FALSE, provider |-> "Circle USDC", error |-> e])

\* a success dict that reports no fee
CircleSuccessNoFee(transfer, chain) ==
    ReturnDict([success |-> TRUE,
                provider |-> "Circle USDC",
                transfer_id |-> transfer.transfer_id,
                amount |-> transfer.amount,
                chain |-> chain,
                fee |-> 0,
                estimated_time |-> get(chain_speeds, chain, 10),
                status |-> transfer.status,
                message |-> <<"USDC transfer initiated on", chain>>])

CircleSuccess(transfer, chain) ==
    ReturnDict([success |-> TRUE,
                provider |-> "Circle USDC",
                transfer_id |-> transfer.transfer_id,
                amount |-> transfer.amount,
                chain |-> chain,
                fee |-> get(chain_fees, chain, 0),
                estimated_time |-> get(chain_speeds, chain, 10),
                status |-> transfer.status,
                message |-> <<"USDC transfer initiated on", chain>>])

\* Python truth value of an optional string
Falsy(x) == x \in {None, ""}

\* the arguments: an amount and preferred_chain (None, "" or a chain)
CircleCall ==
    /\ Idle
    /\ \E amt \in Amounts, pref \in {None, "", "ETH"} :
        /\ Fresh("process_circle_payment", "get_wallet_balance", amt)
        /\ preferred_chain' = pref
    /\ UNCHANGED demoVars

\* balances = await client.get_wallet_balance(customer_wallet), and the list
\* comprehension; an exception goes to the except clause
CircleGetWalletBalance ==
    /\ op = "process_circle_payment" /\ pc = "get_wallet_balance"
    /\ \E r \in BalanceOutcomes :
        LET got == get_wallet_balance("customer_wallet", r)
        IN  /\ calls' = Append(calls, Call("get_wallet_balance", "customer_wallet", r.status, r.body, FALSE, got.exc # None))
            /\ IF got.exc # None
               THEN /\ result' = CircleFailure(got.exc)
                    /\ pc' = "done"
                    /\ UNCHANGED <<balances, available_chains>>
               ELSE /\ balances' = got.val
                    /\ available_chains' = ChainsWithBalance(got.val, amount)
                    /\ pc' = IF Falsy(preferred_chain) THEN "select_optimal_chain"
                             ELSE "create_transfer"
                    /\ UNCHANGED result
    /\ UNCHANGED <<op, amount, priority, selected, preferred_chain, endpoint_idx, usd_amount>>
    /\ UNCHANGED demoVars

\* preferred_chain = await router.select_optimal_chain(..., priority="cost")
CircleSelectChain ==
    /\ op = "process_circle_payment" /\ pc = "select_optimal_chain"
    /\ priority' = "cost"
    /\ selected' = select_optimal_chain(amount, available_chains, "cost")
    /\ preferred_chain' = selected'
    /\ calls' = Append(calls, Call("select_optimal_chain", selected', 0, "none", FALSE, FALSE))
    /\ pc' = "create_transfer"
    /\ UNCHANGED <<op, amount, available_chains, balances, endpoint_idx, usd_amount, result>>
    /\ UNCHANGED demoVars

\* transfer = await client.create_transfer(..., blockchain=preferred_chain),
\* then the success dict, or the except clause
CircleCreateTransfer ==
    /\ op = "process_circle_payment" /\ pc = "create_transfer"
    /\ \E r \in PostOutcomes :
        LET got == create_transfer("customer_wallet", "merchant_wallet", amount, preferred_chain, r)
        IN  /\ calls' = Append(calls, Call("create_transfer", preferred_chain, r.status, r.body, TRUE, got.exc # None))
            /\ result' = IF got.exc # None THEN CircleFailure(got.exc)
                         ELSE CircleSuccess(got.val, preferred_chain)
    /\ pc' = "done"
    /\ UNCHANGED <<op, amount, priority, available_chains, selected, preferred_chain,
                   balances, endpoint_idx, usd_amount>>
    /\ UNCHANGED demoVars

(***************************************************************************)
(* CoinbaseCommerceClient.create_charge and process_coinbase_payment       *)
(***************************************************************************)
ChargeId(r) == IF r.body = "ok" THEN "ch_1" ELSE None
HostedUrl(r) == IF r.body = "ok" THEN "https://commerce.coinbase.com/charges/ch_1" ELSE None

create_charge(amt, currency, customer_name, description, r) ==
    IF r.status = 0 THEN Raised("ClientError")
    ELSE IF r.status \in {200, 201}
    THEN IF r.body = "not_json" THEN Raised("ContentTypeError")
         ELSE IF r.body = "null_data" THEN Raised("AttributeError")
         ELSE Returned([charge_id |-> ChargeId(r),
                        amount |-> amt,
                        currency |-> currency,
                        status |-> "pending",
                        payment_url |-> HostedUrl(r)])
    ELSE Raised("Failed to create charge")

\* the failure dict with the error under another key
CoinbaseFailureMessage(e) ==
    [kind |-> "dict",
     value |-> [success |-> FALSE, provider |-> "Coinbase Commerce", message |-> e]]

CoinbaseFailure(e) ==
    ReturnDict([success |-> FALSE, provider |-> "Coinbase Commerce", error |-> e])

CoinbaseSuccess(payment) ==
    ReturnDict([success |-> TRUE,
                provider |-> "Coinbase Commerce",
                charge_id |-> payment.charge_id,
                payment_url |-> payment.payment_url,
                amount |-> payment.amount,
                status |-> payment.status,
                message |-> "Payment charge created. Customer can pay with any cryptocurrency."])

CoinbaseCall ==
    /\ Idle
    /\ \E amt \in Amounts :
        /\ Fresh("process_coinbase_payment", "create_charge", amt)
        /\ preferred_chain' = None
    /\ UNCHANGED demoVars

\* payment = await client.create_charge(...), then the success dict, or the
\* except clause
CoinbaseCreateCharge ==
    /\ op = "process_coinbase_payment" /\ pc = "create_charge"
    /\ \E r \in PostOutcomes :
        LET got == create_charge(amount, "USD", "Jaison Jayaraj", "EazyPay", r)
        IN  /\ calls' = Append(calls, Call("create_charge", "/charges", r.status, r.body, TRUE, got.exc # None))
            /\ result' = IF got.exc # None THEN CoinbaseFailure(got.exc)
                         ELSE CoinbaseSuccess(got.val)
    /\ pc' = "done"
    /\ UNCHANGED <<op, amount, priority, available_chains, selected, preferred_chain,
                   balances, endpoint_idx, usd_amount>>
    /\ UNCHANGED demoVars

(***************************************************************************)
(* FernAPIClient (fern_integration.py)                                     *)
(***************************************************************************)
\* a FernPaymentResult instance
FernPaymentResult(success, transfer_id, amount_received, error_message, settlement_status) ==
    [kind |-> "FernPaymentResult",
     value |-> [success |-> success,
                transfer_id |-> transfer_id,
                amount_received |-> amount_received,
                error_message |-> error_message,
                settlement_status |-> settlement_status]]

\* JSON bodies of GET /customers/{id}: an object of a verified customer, of
\* an unverified one, an object carrying an "error" key, a JSON array, or a
\* body that is not JSON
StatusBodies == {"verified", "unverified", "error_key", "array", "not_json"}
StatusOutcomes ==
    {NetworkError} \cup [status : {200, 404, 500}, body : StatusBodies]

\* a lookup that parses the body whatever the status
get_customer_status_any_status(customer_id, r) ==
    IF r.status = 0 THEN Raised("ClientError")
    ELSE IF r.body = "not_json" THEN Raised("ContentTypeError")
    ELSE Returned([object |-> r.body # "array",
                   has_error |-> r.body = "error_key",
                   customerStatus |-> IF r.body = "verified" THEN "VERIFIED"
                                      ELSE IF r.body = "unverified" THEN "PENDING"
                                      ELSE None])

\* the customer_status dict, described by what create_crypto_transfer reads
get_customer_status(customer_id, r) ==
    IF r.status = 0 THEN Raised("ClientError")
    ELSE IF r.status = 200
    THEN IF r.body = "not_json" THEN Raised("ContentTypeError")
         ELSE Returned([object |-> r.body # "array",
                        has_error |-> r.body = "error_key",
                        customerStatus |-> IF r.body = "verified" THEN "VERIFIED"
                                           ELSE IF r.body = "unverified" THEN "PENDING"
                                           ELSE None])
    ELSE Returned([object |-> TRUE, has_error |-> TRUE, customerStatus |-> None])

possible_endpoints == <<"/transfers", "/payments", "/customers/{customer_id}/transfers">>

\* no outer except clause: the exception leaves the function
FernIntegrationErrorReraised(e) == [kind |-> "raised", value |-> e]

\* the outer except clause
FernIntegrationError(e) ==
    FernPaymentResult(FALSE, None, 0, "Integration error", "pending")

FernCall ==
    /\ Idle
    /\ \E amt \in Amounts :
        /\ Fresh("create_crypto_transfer", "get_customer_status", amt)
        /\ preferred_chain' = None
    /\ UNCHANGED demoVars

\* customer_status = await self.get_customer_status(customer_id) and the two
\* checks on it
FernGetCustomerStatus ==
    /\ op = "create_crypto_transfer" /\ pc = "get_customer_status"
    /\ \E r \in StatusOutcomes :
        LET got == get_customer_status("customer_id", r)
        IN  /\ calls' = Append(calls, Call("get_customer_status", "customer_id", r.status, r.body, FALSE, got.exc # None))
            /\ IF got.exc # None
               THEN /\ result' = FernIntegrationError(got.exc)
                    /\ pc' = "done"
                    /\ UNCHANGED endpoint_idx
               ELSE IF got.val.has_error
               THEN /\ result' = FernPaymentResult(FALSE, None, 0,
                                     "Customer verification failed", "pending")
                    /\ pc' = "done"
                    /\ UNCHANGED endpoint_idx
               ELSE IF ~got.val.object
               THEN /\ result' = FernIntegrationError("AttributeError")
                    /\ pc' = "done"
                    /\ UNCHANGED endpoint_idx
               ELSE IF got.val.customerStatus # "VERIFIED"
               THEN /\ result' = FernPaymentResult(FALSE, None, 0, "KYC required", "pending")
                    /\ pc' = "done"
                    /\ UNCHANGED endpoint_idx
               ELSE /\ pc' = "post_transfer"
                    /\ endpoint_idx' = 1
                    /\ UNCHANGED result
    /\ UNCHANGED <<op, amount, priority, available_chains, selected, preferred_chain,
                   balances, usd_amount>>
    /\ UNCHANGED demoVars

\* a loop body that never returns early
FernAttemptNoReturn(r) == "continue"

\* what one pass of the loop body does with the answer r ("ok": a JSON object
\* with transferId, "no_data": one without, "null_data": JSON null): "return" the
\* success result, or "continue" with the next endpoint (a status outside
\* 200/201 falls through; an exception is caught by the inner except)
FernAttempt(r) ==
    IF r.status \in {200, 201} /\ r.body \in {"ok", "no_data"} THEN "return" ELSE "continue"

\* the pass ends in the inner except clause: no answer, or a 200/201 body
\* that response.json() or result.get rejects
FernRaises(r) ==
    r.status = 0 \/ (r.status \in {200, 201} /\ r.body \in {"null_data", "not_json"})

\* result.get("transferId", "fern_transfer_success")
FernTransferId(r) == IF r.body = "ok" THEN "tr_1" ELSE "fern_transfer_success"

\* one pass of: for endpoint in possible_endpoints
FernPostTransfer ==
    /\ op = "create_crypto_transfer" /\ pc = "post_transfer"
    /\ \E r \in PostOutcomes :
        /\ calls' = Append(calls, Call("post", possible_endpoints[endpoint_idx], r.status, r.body, TRUE,
                                        FernRaises(r)))
        /\ IF FernAttempt(r) = "return"
           THEN /\ result' = FernPaymentResult(TRUE, FernTransferId(r), amount, None, "completed")
                /\ pc' = "done"
                /\ UNCHANGED endpoint_idx
           ELSE IF endpoint_idx < Len(possible_endpoints)
           THEN /\ endpoint_idx' = endpoint_idx + 1
                /\ UNCHANGED <<pc, result>>
           ELSE /\ result' = FernPaymentResult(FALSE, None, 0,
                                 "No valid Fern transfer endpoint found", "pending")
                /\ pc' = "done"
                /\ UNCHANGED endpoint_idx
    /\ UNCHANGED <<op, amount, priority, available_chains, selected, preferred_chain,
                   balances, usd_amount>>
    /\ UNCHANGED demoVars

(***************************************************************************)
(* FernClient (fern_client.py) and main.process_payment (main.py)          *)
(***************************************************************************)
\* JSON bodies of the Fern convert and transfer POSTs: an object with
\* "success": true (and an "id"), with "success": false, without the flag,
\* without the flag and with an "amount", a JSON array, or not JSON
FernBodies == {"success_true", "success_false", "no_flag", "with_amount", "array", "not_json"}
FernOutcomes ==
    {NetworkError} \cup [status : {200, 400, 500}, body : FernBodies]

\* result = await response.json(); return result  (the status is not read)
customer_convert(customer_id, from_currency, to_currency, amt, r) ==
    IF r.status = 0 THEN Raised("ClientError")
    ELSE IF r.body = "not_json" THEN Raised("ContentTypeError")
    ELSE Returned(r.body)

customer_transfer(from_customer, to_customer, amt, currency, r) ==
    IF r.status = 0 THEN Raised("ClientError")
    ELSE IF r.body = "not_json" THEN Raised("ContentTypeError")
    ELSE Returned(r.body)

\* a check that never sees a failure
ReportsFailureNever(body) == FALSE

\* not json_result.get("success", True)
ReportsFailure(body) == body = "success_false"

\* the "amount" the provider reports for a conversion of amt
ProviderAmount(amt) == amt - 1

HTTPException(status_code, detail) ==
    [kind |-> "http", value |-> [status |-> status_code, detail |-> detail]]

PaymentResponse(success, merchant_received_amount, fern_transfer_id) ==
    [kind |-> "http",
     value |-> [status |-> 200,
                success |-> success,
                merchant_received_amount |-> merchant_received_amount,
                fern_transfer_id |-> fern_transfer_id]]

\* the checks before the first await: CUSTOMER_A_ID and CUSTOMER_B_ID
MainCall ==
    /\ Idle
    /\ \E amt \in Amounts, configured \in BOOLEAN :
        /\ Fresh("process_payment", IF configured THEN "customer_convert" ELSE "done", amt)
        /\ preferred_chain' = None
        /\ result' = IF configured THEN NoResult
                     ELSE HTTPException(500, "Customer IDs not configured")
    /\ UNCHANGED demoVars

\* conversion_result = await fern.customer_convert(...) and the checks on it
MainCustomerConvert ==
    /\ op = "process_payment" /\ pc = "customer_convert"
    /\ \E r \in FernOutcomes :
        LET got == customer_convert("customer_a", "USDC", "USD", amount, r)
        IN  /\ calls' = Append(calls, Call("customer_convert", "/customers/{a}/convert", r.status, r.body, FALSE,
                                            got.exc # None))
            /\ IF got.exc # None
               THEN /\ result' = HTTPException(500, got.exc)
                    /\ pc' = "done"
                    /\ UNCHANGED usd_amount
               ELSE IF got.val = "array"
               THEN /\ result' = HTTPException(500, "AttributeError")
                    /\ pc' = "done"
                    /\ UNCHANGED usd_amount
               ELSE IF ReportsFailure(got.val)
               THEN /\ result' = HTTPException(400, "Currency conversion failed")
                    /\ pc' = "done"
                    /\ UNCHANGED usd_amount
               ELSE /\ usd_amount' = IF got.val = "with_amount" THEN ProviderAmount(amount)
                                     ELSE amount
                    /\ pc' = "customer_transfer"
                    /\ UNCHANGED result
    /\ UNCHANGED <<op, amount, priority, available_chains, selected, preferred_chain,
                   balances, endpoint_idx>>
    /\ UNCHANGED demoVars

\* transfer_result = await fern.customer_transfer(...), the check on it and
\* the PaymentResponse
MainCustomerTransfer ==
    /\ op = "process_payment" /\ pc = "customer_transfer"
    /\ \E r \in FernOutcomes :
        LET got == customer_transfer("customer_a", "customer_b", usd_amount, "USD", r)
        IN  /\ calls' = Append(calls, Call("customer_transfer", "/customers/{a}/transfers", r.status, r.body, TRUE,
                                            got.exc # None))
            /\ result' = IF got.exc # None THEN HTTPException(500, got.exc)
                         ELSE IF got.val = "array" THEN HTTPException(500, "AttributeError")
                         ELSE IF ReportsFailure(got.val)
                         THEN HTTPException(400, "Transfer to merchant failed")
                         ELSE PaymentResponse(TRUE, usd_amount,
                                  IF got.val = "success_true" THEN "tr_1" ELSE "unknown")
    /\ pc' = "done"
    /\ UNCHANGED <<op, amount, priority, available_chains, selected, preferred_chain,
                   balances, endpoint_idx, usd_amount>>
    /\ UNCHANGED demoVars

(***************************************************************************)
(* The provider side: one operation at a time, each from its call to its   *)
(* return.                                                                 *)
(***************************************************************************)
DemoInit ==
    /\ alice_balance = 1000
    /\ bob_balance = 50
    /\ alice_tx = <<>>
    /\ bob_tx = <<>>
    /\ n_req = 0
    /\ last_req = [endpoint |-> "none", amount |-> 0, chain_id |-> 0]
    /\ resp = NoResult
    /\ pending = <<>>

AdapterInit ==
    /\ op = "none"
    /\ pc = "idle"
    /\ amount = 0
    /\ priority = None
    /\ available_chains = <<>>
    /\ selected = None
    /\ preferred_chain = None
    /\ balances = <<>>
    /\ endpoint_idx = 0
    /\ usd_amount = 0
    /\ calls = <<>>
    /\ result = NoResult

Init == AdapterInit /\ DemoInit

Next ==
    \/ SelectOptimalChain
    \/ CircleCall
    \/ CircleGetWalletBalance
    \/ CircleSelectChain
    \/ CircleCreateTransfer
    \/ CoinbaseCall
    \/ CoinbaseCreateCharge
    \/ FernCall
    \/ FernGetCustomerStatus
    \/ FernPostTransfer
    \/ MainCall
    \/ MainCustomerConvert
    \/ MainCustomerTransfer

Spec == Init /\ [][Next]_vars

(***************************************************************************)
(* The demo backend (demo_backend.py): two customers held in memory.  Each *)
(* handler runs from request to response; amounts are whole dollars, fees  *)
(* hundredths.                                                             *)
(***************************************************************************)
\* amounts the request schema admits: negative, zero, part of the payer's
\* balance, all of it, more than it
DemoAmounts == {-50, 0, 400, 1000, 1200}
\* the four chains process_payment_v2 serves through Circle (Base, Polygon,
\* Optimism, Arbitrum), Ethereum, and a chain without a name
ChainIds == {8453, 137, 10, 42161, 1, 31337}
\* values of f"demo_tx_{int(time.time())}_{random.randint(1000, 9999)}"
TxIds == {"demo_tx_1700000000_1000", "demo_tx_1700000000_9999"}

get_chain_name(chain_id) ==
    CASE chain_id = 1 -> "Ethereum"
      [] chain_id = 10 -> "Optimism"
      [] chain_id = 137 -> "Polygon"
      [] chain_id = 42161 -> "Arbitrum"
      [] chain_id = 8453 -> "Base"
      [] chain_id = 84532 -> "Base Sepolia"
      [] chain_id = 11155111 -> "Ethereum Sepolia"
      [] OTHER -> "Chain " \o ToString(chain_id)

PaymentRequest(endpoint, amt, chain_id) ==
    [endpoint |-> endpoint, amount |-> amt, chain_id |-> chain_id]

\* no check at all
SufficientFundsAlways(balance, amt) == TRUE

\* a check that also turns away a payment of the whole balance
SufficientFundsStrict(balance, amt) == ~(balance <= amt)

\* the negation of: DEMO_CUSTOMERS["alice"]["balance_usd"] < payment.amount
SufficientFunds(balance, amt) == ~(balance < amt)

\* the balances after: alice -= payment.amount; bob += payment.amount
Transfer(alice, bob, amt) == [alice |-> alice - amt, bob |-> bob + amt]

\* a v2 update that forgets the merchant
TransferV2NoCredit(alice, bob, amt) == [alice |-> alice - amt, bob |-> bob]

\* the balances after the v2 update with usd_amount = float(payment.amount)
TransferV2(alice, bob, amt) == [alice |-> alice - amt, bob |-> bob + amt]

alice_tx_record(tx_id, amt, chain_id) ==
    [id |-> tx_id, type |-> "payment_sent", amount |-> -amt,
     to |-> "Bob's Coffee Shop", chain |-> get_chain_name(chain_id)]

\* a merchant record that carries the payer's sign
bob_tx_record_debit(tx_id, amt, chain_id) ==
    [id |-> tx_id, type |-> "payment_received", amount |-> -amt,
     from |-> "Jaison Jayaraj", settlement_status |-> "completed",
     chain |-> get_chain_name(chain_id)]

bob_tx_record(tx_id, amt, chain_id) ==
    [id |-> tx_id, type |-> "payment_received", amount |-> amt,
     from |-> "Jaison Jayaraj", settlement_status |-> "completed",
     chain |-> get_chain_name(chain_id)]

\* process_payment from the return of the simulated delay to the response:
\* the balance check, the two balance updates, the two records
HandlePayment(amt, chain_id, tx_id) ==
    /\ last_req' = PaymentRequest("/process-payment", amt, chain_id)
    /\ IF ~SufficientFunds(alice_balance, amt)
       THEN /\ resp' = HTTPException(400, "Insufficient funds")
            /\ UNCHANGED <<alice_balance, bob_balance, alice_tx, bob_tx>>
       ELSE /\ alice_balance' = Transfer(alice_balance, bob_balance, amt).alice
            /\ bob_balance' = Transfer(alice_balance, bob_balance, amt).bob
            /\ alice_tx' = Append(alice_tx, alice_tx_record(tx_id, amt, chain_id))
            /\ bob_tx' = Append(bob_tx, bob_tx_record(tx_id, amt, chain_id))
            /\ resp' = PaymentResponse(TRUE, amt, tx_id)

\* POST /process-payment, one request at a time
DemoProcessPayment ==
    /\ n_req < MaxRequests
    /\ \E amt \in DemoAmounts, chain_id \in ChainIds, tx_id \in TxIds :
        HandlePayment(amt, chain_id, tx_id)
    /\ n_req' = n_req + 1
    /\ UNCHANGED pending
    /\ UNCHANGED <<adapterVars, routerVars>>

\* the providers list of process_payment_v2, fees in hundredths
CircleProvider ==
    [provider |-> "Circle USDC", fee |-> 5, speed |-> "2 seconds", selected |-> TRUE]

CoinbaseProvider ==
    [provider |-> "Coinbase Commerce", fee |-> 30, speed |-> "10 seconds", selected |-> FALSE]

Providers(chain_id) ==
    (IF chain_id \in {8453, 137, 10, 42161} THEN <<CircleProvider>> ELSE <<>>)
    \o <<CoinbaseProvider>>

\* a choice of the last entry of the list
SelectedProviderLast(providers) ==
    IF providers # <<>> THEN providers[Len(providers)] ELSE [provider |-> "Fern API"]

\* selected = providers[0] if providers else {"provider": "Fern API"}
SelectedProvider(providers) ==
    IF providers # <<>> THEN providers[1] ELSE [provider |-> "Fern API"]

\* POST /process-payment-v2
DemoProcessPaymentV2 ==
    /\ n_req < MaxRequests
    /\ \E amt \in DemoAmounts, chain_id \in ChainIds :
        LET providers == Providers(chain_id)
            sel == SelectedProvider(providers)
        IN  /\ last_req' = PaymentRequest("/process-payment-v2", amt, chain_id)
            /\ alice_balance' = TransferV2(alice_balance, bob_balance, amt).alice
            /\ bob_balance' = TransferV2(alice_balance, bob_balance, amt).bob
            /\ resp' = [kind |-> "http",
                        value |-> [status |-> 200,
                                   success |-> TRUE,
                                   provider_used |-> sel.provider,
                                   amount |-> amt,
                                   fee |-> get(sel, "fee", 1),
                                   settlement_time |-> get(sel, "speed", "instant"),
                                   available_providers |-> providers]]
    /\ n_req' = n_req + 1
    /\ UNCHANGED <<alice_tx, bob_tx, pending>>
    /\ UNCHANGED <<adapterVars, routerVars>>

\* DEMO_CUSTOMERS as the module defines it: the balances and the transaction
\* lists of alice (the payer) and bob (the merchant)
DEMO_CUSTOMERS ==
    [alice_balance |-> 1000, bob_balance |-> 50, alice_tx |-> <<>>, bob_tx |-> <<>>]

\* the same four fields of the running backend
Customers ==
    [alice_balance |-> alice_balance, bob_balance |-> bob_balance,
     alice_tx |-> alice_tx, bob_tx |-> bob_tx]

\* a reset that leaves the merchant's settlements in place
reset_demo_keeps_settlements(customers) ==
    [alice_balance |-> 1000, bob_balance |-> 50, alice_tx |-> <<>>,
     bob_tx |-> customers.bob_tx]

\* the four assignments of reset_demo
reset_demo(customers) ==
    [alice_balance |-> 1000, bob_balance |-> 50, alice_tx |-> <<>>, bob_tx |-> <<>>]

\* POST /demo/reset
DemoReset ==
    /\ alice_balance' = reset_demo(Customers).alice_balance
    /\ bob_balance' = reset_demo(Customers).bob_balance
    /\ alice_tx' = reset_demo(Customers).alice_tx
    /\ bob_tx' = reset_demo(Customers).bob_tx
    /\ n_req' = 0
    /\ UNCHANGED pending
    /\ last_req' = PaymentRequest("/demo/reset", 0, 0)
    /\ resp' = [kind |-> "http",
                value |-> [status |-> 200, alice_balance |-> alice_balance',
                           bob_balance |-> bob_balance']]
    /\ UNCHANGED <<adapterVars, routerVars>>

DemoNext ==
    \/ DemoProcessPayment
    \/ DemoProcessPaymentV2
    \/ DemoReset

SpecDemo == Init /\ [][DemoNext]_vars

(***************************************************************************)
(* The demo backend under concurrent /process-payment requests.  The       *)
(* handler is a coroutine on one event loop: it gives up control only at   *)
(* await simulate_processing_delay(), its one await, and runs from there   *)
(* to its response without another request's code in between.              *)
(***************************************************************************)
PositiveAmounts == {a \in DemoAmounts : a > 0}

RemoveAt(s, i) == SubSeq(s, 1, i - 1) \o SubSeq(s, i + 1, Len(s))

\* a request arrives and suspends at the simulated delay
ProcessPaymentAwaitDelay ==
    /\ n_req < MaxRequests
    /\ \E amt \in PositiveAmounts, chain_id \in ChainIds :
        pending' = Append(pending, PaymentRequest("/process-payment", amt, chain_id))
    /\ n_req' = n_req + 1
    /\ UNCHANGED <<alice_balance, bob_balance, alice_tx, bob_tx, last_req, resp>>
    /\ UNCHANGED <<adapterVars, routerVars>>

\* the delay of one suspended request is over: it runs to its response
ProcessPaymentResume ==
    /\ \E i \in 1..Len(pending), tx_id \in TxIds :
        /\ HandlePayment(pending[i].amount, pending[i].chain_id, tx_id)
        /\ pending' = RemoveAt(pending, i)
    /\ UNCHANGED n_req
    /\ UNCHANGED <<adapterVars, routerVars>>

ConcNext ==
    \/ ProcessPaymentAwaitDelay
    \/ ProcessPaymentResume

SpecDemoConc == Init /\ [][ConcNext]_vars

(***************************************************************************)
(* Properties of the rail selector                                         *)
(***************************************************************************)
\* select_optimal_chain has returned (called on its own or by
\* process_circle_payment); priority and available_chains are its arguments
SelectorReturned == selected # None

\* the fee table as the specification gives it, in hundredths
TableFee(c) ==
    CASE c = "ETH" -> 1500
      [] c = "MATIC" -> 1
      [] c = "ARB" -> 10
      [] c = "OP" -> 10
      [] c = "BASE" -> 5
      [] c = "AVAX" -> 50
      [] OTHER -> 99900

\* the latency table as the specification gives it
TableSpeed(c) ==
    CASE c = "ETH" -> 180
      [] c = "MATIC" -> 3
      [] c \in {"ARB", "OP", "BASE", "AVAX"} -> 2
      [] OTHER -> 999

\* C1: with priority "cost" and a non-empty available_chains, the chain
\* returned is an element of available_chains and no element has a lower fee
\* (a chain outside the table counting as 999).
C1_CheapestChain ==
    (SelectorReturned /\ priority = "cost" /\ available_chains # <<>>)
        => /\ selected \in Range(available_chains)
           /\ \A d \in Range(available_chains) : TableFee(selected) <= TableFee(d)

\* a "cost" call whose cheapest chain is neither first in the list nor alone,
\* among candidates that include a chain outside the table
C1_Witness ==
    /\ op = "select_optimal_chain"
    /\ priority = "cost"
    /\ Len(available_chains) = 3
    /\ "SOL" \in Range(available_chains)
    /\ selected = available_chains[3]
    /\ TableFee(selected) < TableFee(available_chains[1])
    /\ TableFee(selected) < TableFee(available_chains[2])

\* position of the first element of chains at which key(_) is least
FirstLeast(chains, key) ==
    CHOOSE i \in 1..Len(chains) :
        /\ \A j \in 1..Len(chains) : key[chains[i]] <= key[chains[j]]
        /\ \A j \in 1..(i - 1) : key[chains[j]] > key[chains[i]]

TableFeeOf == [c \in Chains |-> TableFee(c)]
TableSpeedOf == [c \in Chains |-> TableSpeed(c)]

\* C2: with any priority other than "cost" ("speed") and a non-empty
\* available_chains, the chain returned is an element of available_chains and
\* no element has a lower latency (a chain outside the table counting as
\* 999); the ranking reads one key only, the fee for "cost" and the latency
\* otherwise: the chain returned is the first one in list order at which that
\* one key is least, whatever the other key says.
C2_FastestChain ==
    (SelectorReturned /\ available_chains # <<>>)
        => /\ priority # "cost" =>
                /\ selected \in Range(available_chains)
                /\ \A d \in Range(available_chains) : TableSpeed(selected) <= TableSpeed(d)
                /\ selected = available_chains[FirstLeast(available_chains, TableSpeedOf)]
           /\ priority = "cost" =>
                selected = available_chains[FirstLeast(available_chains, TableFeeOf)]

\* a "speed" call that returns a chain dearer than another equally fast
\* candidate: the fee took no part in the ranking
C2_Witness ==
    /\ op = "select_optimal_chain"
    /\ priority = "speed"
    /\ available_chains = <<"ETH", "AVAX", "BASE">>
    /\ selected = "AVAX"

\* C3: with an empty available_chains the call returns "BASE", for every
\* priority and amount; with a non-empty one it returns an element of
\* available_chains.
C3_DefaultOrCandidate ==
    SelectorReturned
        => IF available_chains = <<>> THEN selected = "BASE"
           ELSE selected \in Range(available_chains)

\* process_circle_payment found balances, none of them sufficient, and the
\* selector fell back to "BASE"
C3_Witness ==
    /\ op = "process_circle_payment"
    /\ balances # <<>>
    /\ available_chains = <<>>
    /\ amount = 30
    /\ selected = "BASE"

(***************************************************************************)
(* Properties of the settlement adapters                                   *)
(***************************************************************************)
Done(o) == op = o /\ pc = "done"

FnNames(cs) == [i \in 1..Len(cs) |-> cs[i].fn]

IsPrefix(s, t) == Len(s) <= Len(t) /\ \A i \in 1..Len(s) : s[i] = t[i]

NumPosts == Cardinality({i \in 1..Len(calls) : calls[i].post})

\* process_circle_payment was called without preferred_chain: the argument is
\* still unset, or the selector's choice has been assigned to it
NoPreference == Falsy(preferred_chain) \/ SelectorReturned

CircleSteps == <<"get_wallet_balance", "select_optimal_chain", "create_transfer">>

\* the chains of the wallet whose balance covers amt, as a set
CoveredChains(bal, amt) == {bal[i].chain : i \in {j \in 1..Len(bal) : bal[j].amount >= amt}}

\* the selection, the transfer and the reported chain agree
C4_SameChain ==
    /\ Len(calls) >= 2 =>
          /\ Range(available_chains) = CoveredChains(balances, amount)
          /\ priority = "cost"
          /\ calls[2].target = selected
          /\ selected = IF available_chains = <<>> THEN "BASE"
                        ELSE available_chains[FirstLeast(available_chains, TableFeeOf)]
    /\ Len(calls) >= 3 => calls[3].target = selected
    /\ (pc = "done" /\ result.value.success) => result.value.chain = selected

\* C4 as stated: a call of process_circle_payment without preferred_chain
\* ends having made the balance query, then the rail selection (cost
\* priority, over the chains whose balance covers the amount), then exactly
\* one create_transfer, on the chain selected, which the success result names.
C4_AsStated ==
    (op = "process_circle_payment" /\ NoPreference)
        => /\ IsPrefix(FnNames(calls), CircleSteps)
           /\ pc = "done" => FnNames(calls) = CircleSteps
           /\ C4_SameChain

\* C4 amended: the steps come in the order balance query, rail selection,
\* create_transfer, and when the balance query returns there is exactly one
\* create_transfer, on the chain selected, which the success result names;
\* when the balance query raises, the call ends in a failure result with no
\* rail selection and no create_transfer.
C4_OrderedSteps ==
    (op = "process_circle_payment" /\ NoPreference)
        => /\ IsPrefix(FnNames(calls), CircleSteps)
           /\ pc = "done" =>
                IF calls[1].raised
                THEN /\ FnNames(calls) = <<"get_wallet_balance">>
                     /\ ~result.value.success
                     /\ ~SelectorReturned
                ELSE FnNames(calls) = CircleSteps /\ NumPosts = 1
           /\ C4_SameChain

\* a successful payment whose wallet holds a cheaper chain that cannot cover
\* the amount: the transfer went out on the dearer chain that can
C4_Witness ==
    /\ Done("process_circle_payment")
    /\ result.value.success
    /\ Len(balances) = 2
    /\ balances[1].chain = "MATIC" /\ balances[1].amount < amount
    /\ available_chains = <<"ETH">>
    /\ Len(calls) = 3
    /\ calls[3].target = "ETH"
    /\ result.value.chain = "ETH"

AdapterOps == {"process_circle_payment", "process_coinbase_payment", "create_crypto_transfer"}

\* the field names under which some adapter reports the success flag, the
\* provider-side identifier, the amount or the error
NormalFields ==
    {"success", "transfer_id", "charge_id", "amount", "amount_received", "error",
     "error_message"}

\* the kind of value and the names of those fields in it
Shape(r) == [kind |-> r.kind, fields |-> (DOMAIN r.value) \cap NormalFields]

DictShape(fields) == [kind |-> "dict", fields |-> fields]

\* C5 as stated: whichever adapter was called, its outcome has the shape of
\* process_circle_payment's outcome: the same kind of value, the same field
\* names.
C5_AsStated ==
    (op \in AdapterOps /\ pc = "done")
        => Shape(result) = IF result.value.success
                           THEN DictShape({"success", "transfer_id", "amount"})
                           ELSE DictShape({"success", "error"})

\* C5 amended: every adapter reports a boolean success flag named "success",
\* but in three shapes.  process_circle_payment returns a dict with
\* transfer_id and amount on success and error on failure;
\* process_coinbase_payment a dict with charge_id and amount on success and
\* error on failure (its failure dict has the keys of Circle's);
\* create_crypto_transfer a FernPaymentResult with transfer_id,
\* amount_received and error_message in every outcome.
C5_ThreeShapes ==
    (op \in AdapterOps /\ pc = "done")
        => /\ result.kind \in {"dict", "FernPaymentResult"}
           /\ result.value.success \in BOOLEAN
           /\ op = "process_circle_payment" =>
                Shape(result) = IF result.value.success
                                THEN DictShape({"success", "transfer_id", "amount"})
                                ELSE DictShape({"success", "error"})
           /\ op = "process_coinbase_payment" =>
                Shape(result) = IF result.value.success
                                THEN DictShape({"success", "charge_id", "amount"})
                                ELSE DictShape({"success", "error"})
           /\ (op # "create_crypto_transfer" /\ ~result.value.success) =>
                DOMAIN result.value = {"success", "provider", "error"}
           /\ op = "create_crypto_transfer" =>
                Shape(result) = [kind |-> "FernPaymentResult",
                                 fields |-> {"success", "transfer_id", "amount_received",
                                             "error_message"}]

\* a successful Coinbase payment: the identifier is under charge_id
C5_Witness ==
    /\ Done("process_coinbase_payment")
    /\ result.value.success
    /\ result.value.charge_id = "ch_1"

ProviderName(o) ==
    IF o = "process_circle_payment" THEN "Circle USDC" ELSE "Coinbase Commerce"

LastCall == calls[Len(calls)]

C7_FernResult ==
    Done("create_crypto_transfer")
        => /\ result.kind = "FernPaymentResult"
           /\ ~result.value.success =>
                /\ result.value.transfer_id = None
                /\ result.value.amount_received = 0
                /\ result.value.error_message # None
           /\ result.value.success =>
                /\ result.value.amount_received = amount
                /\ result.value.settlement_status = "completed"
                /\ result.value.error_message = None

\* the customer lookup got no answer: the outer except clause built the
\* result
C7_Witness ==
    /\ Done("create_crypto_transfer")
    /\ calls[1].raised
    /\ result.kind = "FernPaymentResult"
    /\ ~result.value.success
    /\ result.value.error_message = "Integration error"

Posts == SelectSeq(calls, LAMBDA c : c.post)

\* a POST the adapter read as a success: answered 200/201 with a body it
\* could use
ReadAsSuccess(c) == c.status \in {200, 201} /\ ~c.raised

\* C8 as stated: one request handled by any adapter issues at most one
\* transfer/charge-creating POST.
C8_AsStated ==
    op \in AdapterOps \cup {"process_payment"} => NumPosts <= 1

\* C8 amended: process_circle_payment, process_coinbase_payment and
\* main.process_payment issue at most one transfer/charge-creating POST per
\* request.  create_crypto_transfer issues up to three, one to each of its
\* candidate endpoints in their listed order and never two to the same one:
\* it goes on to the next endpoint after every POST that it did not read as a
\* success (a status outside 200/201, no answer, or a 200/201 body it cannot
\* use) and issues none after the first POST it read as a success.
C8_OnePostPerEndpoint ==
    /\ op \in {"process_circle_payment", "process_coinbase_payment", "process_payment"}
          => NumPosts <= 1
    /\ op = "create_crypto_transfer" =>
          /\ NumPosts <= Len(possible_endpoints)
          /\ \A i \in 1..Len(Posts) : Posts[i].target = possible_endpoints[i]
          /\ \A i \in 1..(Len(Posts) - 1) : ~ReadAsSuccess(Posts[i])
          /\ pc = "done" /\ NumPosts > 0 =>
                result.value.success = ReadAsSuccess(Posts[Len(Posts)])
          /\ (pc = "done" /\ NumPosts > 0 /\ ~result.value.success) =>
                NumPosts = Len(possible_endpoints)

\* three POSTs for one request, the second sent after a 200 whose body could
\* not be used, the third read as a success
C8_Witness ==
    /\ Done("create_crypto_transfer")
    /\ NumPosts = 3
    /\ Posts[1].status = 500
    /\ Posts[2].status = 200 /\ Posts[2].raised
    /\ result.value.success

(***************************************************************************)
(* Properties of the demo backend                                          *)
(***************************************************************************)
\* a step that handles a payment request (v1 or v2)
PaymentHandled == n_req' = n_req + 1

\* C9: after any sequence of POST /process-payment, /process-payment-v2 and
\* /demo/reset, accepted or rejected, alice's and bob's balances add up to
\* 1050, and each successful payment of amount a takes exactly a from alice
\* and gives exactly a to bob.
C9_MoneyConserved ==
    /\ [](alice_balance + bob_balance = 1050)
    /\ [][(PaymentHandled /\ resp'.value.status = 200)
            => /\ resp'.value.success
               /\ alice_balance' = alice_balance - last_req'.amount
               /\ bob_balance' = bob_balance + last_req'.amount]_vars

\* a v1 payment of 400 followed by a v2 payment of 400
C9_Witness ==
    /\ n_req = 2
    /\ Len(alice_tx) = 1
    /\ last_req.endpoint = "/process-payment-v2"
    /\ last_req.amount = 400
    /\ alice_balance = 200
    /\ bob_balance = 850

\* C10: POST /process-payment answers HTTP 400 and leaves both balances and
\* both transaction lists as they were when alice's balance is below the
\* amount, and succeeds when it is not.
C10_SufficientFundsCheck ==
    [][(PaymentHandled /\ last_req'.endpoint = "/process-payment")
         => IF alice_balance < last_req'.amount
            THEN /\ resp'.value.status = 400
                 /\ UNCHANGED <<alice_balance, bob_balance, alice_tx, bob_tx>>
            ELSE /\ resp'.value.status = 200
                 /\ resp'.value.success]_vars

\* a payment of the whole balance went through and the next one was refused
C10_Witness ==
    /\ n_req = 2
    /\ last_req.endpoint = "/process-payment"
    /\ last_req.amount = 400
    /\ resp.value.status = 400
    /\ alice_balance = 0
    /\ Len(alice_tx) = 1
    /\ alice_tx[1].amount = -1000

(***************************************************************************)
(* Properties of the demo reset                                            *)
(***************************************************************************)
\* a request has been handled since the backend started
Handled == last_req.endpoint # "none"

\* C11: POST /demo/reset restores the initial demo state from any reachable
\* state: alice's balance is 1000, bob's 50 and both transaction lists are
\* empty after it, whatever payments (v1 or v2) came before; and a reset of
\* the state a reset leaves gives that state again.
C11_ResetRestores ==
    /\ [][last_req'.endpoint = "/demo/reset" => Customers' = DEMO_CUSTOMERS]_vars
    /\ [](reset_demo(reset_demo(Customers)) = reset_demo(Customers))

\* a reset has answered
C11_Witness ==
    /\ Handled
    /\ last_req.endpoint = "/demo/reset"
    /\ resp.value.alice_balance = 1000
    /\ resp.value.bob_balance = 50
    /\ Customers = DEMO_CUSTOMERS

(***************************************************************************)
(* Properties of main.process_payment and of the Fern customer check       *)
(***************************************************************************)
\* C12: in main.process_payment the conversion call always precedes the
\* transfer call, and the transfer is issued only if the conversion did not
\* report failure: when the conversion result has success = False the request
\* ends with HTTP 400 and customer_transfer is never called for it.
C12_ConvertBeforeTransfer ==
    op = "process_payment" =>
        /\ IsPrefix(FnNames(calls), <<"customer_convert", "customer_transfer">>)
        /\ (Len(calls) >= 1 /\ ~calls[1].raised /\ calls[1].body = "success_false")
              => /\ Len(calls) = 1
                 /\ pc = "done"
                 /\ result.kind = "http"
                 /\ result.value.status = 400

\* a conversion answered 200 with "success": false has ended the request
C12_Witness ==
    /\ Done("process_payment")
    /\ Len(calls) = 1
    /\ calls[1].fn = "customer_convert"
    /\ calls[1].status = 200
    /\ calls[1].body = "success_false"
    /\ result = HTTPException(400, "Currency conversion failed")

\* the lookup answered HTTP 200 with customerStatus "VERIFIED"
LookupVerified(c) ==
    c.fn = "get_customer_status" /\ c.status = 200 /\ c.body = "verified"

\* C13: create_crypto_transfer first checks the customer: no transfer POST is
\* sent to any endpoint unless the customer-status lookup before it returned
\* HTTP 200 with customerStatus "VERIFIED"; a failed lookup or an unverified
\* customer yields success = False with no POST issued.
C13_VerifiedBeforePost ==
    op = "create_crypto_transfer" =>
        /\ NumPosts > 0 =>
              /\ LookupVerified(calls[1])
              /\ \A i \in 2..Len(calls) : calls[i].post
        /\ (Len(calls) >= 1 /\ ~LookupVerified(calls[1]))
              => /\ pc = "done"
                 /\ result.kind = "FernPaymentResult"
                 /\ ~result.value.success
                 /\ NumPosts = 0

\* an unverified customer turned away, no POST sent
C13_Witness ==
    /\ Done("create_crypto_transfer")
    /\ Len(calls) = 1
    /\ calls[1].status = 200
    /\ calls[1].body = "unverified"
    /\ result.value.error_message = "KYC required"
    /\ NumPosts = 0

\* the provider answered the call with HTTP 2xx
ProviderSucceeded(c) == c.status \in 200..299

\* C14: main.process_payment answers a PaymentResponse with success = True
\* only when both the conversion call and the transfer call succeeded at the
\* provider (HTTP 2xx); whenever either call failed (a non-2xx answer or a
\* network error) the request ends in an HTTP error response.
C14_AsStated ==
    Done("process_payment") =>
        /\ result.value.status = 200 =>
              /\ Len(calls) = 2
              /\ \A i \in 1..2 : ProviderSucceeded(calls[i])
        /\ (\E i \in 1..Len(calls) : ~ProviderSucceeded(calls[i]))
              => result.value.status >= 400

(***************************************************************************)
(* Properties of the demo backend under concurrent requests                *)
(***************************************************************************)
\* C15: under any interleaving of concurrent /process-payment requests with
\* positive amounts, each suspending only at the simulated delay before its
\* balance check, alice's balance is never negative: the check and the debit
\* of one request read and write the balance with no step of another request
\* in between, so every debit is of an amount the balance it is taken from
\* covers.
C15_NeverOverdrawn ==
    /\ [](alice_balance >= 0)
    /\ [][alice_balance' # alice_balance
            => /\ last_req'.amount <= alice_balance
               /\ alice_balance' = alice_balance - last_req'.amount]_vars

\* two requests for the whole balance were in flight; one has been paid and
\* the other, resumed after it, turned away
C15_Witness ==
    /\ n_req = 2
    /\ pending = <<>>
    /\ alice_balance = 0
    /\ Len(alice_tx) = 1
    /\ alice_tx[1].chain = "Base"
    /\ last_req.amount = 1000
    /\ last_req.chain_id = 1
    /\ resp = HTTPException(400, "Insufficient funds")

(***************************************************************************)
(* Properties of the demo balances and transaction lists                   *)
(***************************************************************************)
\* C16: in every state reachable through the demo endpoints (v1, v2 and
\* reset, with any amount the request schema admits, zero and negative
\* included) alice's balance and bob's balance are both at least 0.
C16_NonNegative ==
    alice_balance >= 0 /\ bob_balance >= 0

RECURSIVE SumAmounts(_)
\* the sum of the amounts of a transaction list
SumAmounts(txs) ==
    IF txs = <<>> THEN 0 ELSE Head(txs).amount + SumAmounts(Tail(txs))

\* C17: the demo ledger stays consistent with the balances: in every
\* reachable state alice's balance is 1000 plus the sum of the amounts in her
\* transaction list and bob's balance is 50 plus the sum of the amounts in
\* his.
C17_LedgerMatchesBalances ==
    /\ alice_balance = 1000 + SumAmounts(alice_tx)
    /\ bob_balance = 50 + SumAmounts(bob_tx)

\* C18: demo transaction records are created in matched pairs: a successful
\* POST /process-payment appends exactly one record to alice's list and one
\* to bob's, with the same id, alice's amount -a and bob's +a; a rejected
\* request appends nothing; so both lists have the same length and their
\* i-th entries share the id and carry opposite amounts.
C18_MatchedPairs ==
    /\ [](/\ Len(alice_tx) = Len(bob_tx)
          /\ \A i \in 1..Len(alice_tx) :
                /\ alice_tx[i].id = bob_tx[i].id
                /\ alice_tx[i].amount = -bob_tx[i].amount)
    /\ [][(PaymentHandled /\ last_req'.endpoint = "/process-payment")
            => IF resp'.value.status = 200
               THEN /\ Len(alice_tx') = Len(alice_tx) + 1
                    /\ Len(bob_tx') = Len(bob_tx) + 1
                    /\ SubSeq(alice_tx', 1, Len(alice_tx)) = alice_tx
                    /\ SubSeq(bob_tx', 1, Len(bob_tx)) = bob_tx
                    /\ alice_tx'[Len(alice_tx')].id = bob_tx'[Len(bob_tx')].id
                    /\ alice_tx'[Len(alice_tx')].amount = -last_req'.amount
                    /\ bob_tx'[Len(bob_tx')].amount = last_req'.amount
               ELSE UNCHANGED <<alice_tx, bob_tx>>]_vars

\* a payment of 400 and one of -50, given the same transaction id, have been
\* recorded: two pairs with opposite amounts
C18_Witness ==
    /\ n_req = 2
    /\ Len(alice_tx) = 2 /\ Len(bob_tx) = 2
    /\ alice_tx[1].amount = -400 /\ bob_tx[1].amount = 400
    /\ alice_tx[2].amount = 50 /\ bob_tx[2].amount = -50
    /\ alice_tx[1].id = alice_tx[2].id

(***************************************************************************)
(* Properties of the provider choice of process_payment_v2                 *)
(***************************************************************************)
\* process_payment_v2 has answered the last request
AnsweredV2 == last_req.endpoint = "/process-payment-v2"

\* C19: process_payment_v2 picks the provider from the chain id alone:
\* provider_used is "Circle USDC" with fee 0.05 when chain_id is one of 8453,
\* 137, 10, 42161 and "Coinbase Commerce" with fee 0.30 otherwise;
\* provider_used is always the entry of available_providers with the lowest
\* fee; the "Fern API" default is never used.
C19_ProviderByChain ==
    AnsweredV2 =>
        LET v == resp.value
            ps == v.available_providers
        IN  /\ IF last_req.chain_id \in {8453, 137, 10, 42161}
               THEN v.provider_used = "Circle USDC" /\ v.fee = 5
               ELSE v.provider_used = "Coinbase Commerce" /\ v.fee = 30
            /\ \E i \in 1..Len(ps) :
                  /\ ps[i].provider = v.provider_used
                  /\ ps[i].fee = v.fee
                  /\ \A j \in 1..Len(ps) : ps[i].fee <= ps[j].fee
            /\ v.provider_used # "Fern API"

\* a v2 payment on Polygon went through Circle, Coinbase being on offer too
C19_Witness ==
    /\ AnsweredV2
    /\ last_req.chain_id = 137
    /\ resp.value.provider_used = "Circle USDC"
    /\ resp.value.fee = 5
    /\ Len(resp.value.available_providers) = 2
    /\ resp.value.available_providers[2].fee = 30

\* C20: in every v2 response provider_used names exactly the one entry of
\* available_providers whose "selected" flag is True, for every chain_id.
C20_AsStated ==
    AnsweredV2 =>
        LET ps == resp.value.available_providers
            flagged == {i \in 1..Len(ps) : ps[i].selected}
        IN  /\ Cardinality(flagged) = 1
            /\ \A i \in flagged : ps[i].provider = resp.value.provider_used

(***************************************************************************)
(* Properties relating the Circle result to the rail selector              *)
(***************************************************************************)
\* process_circle_payment has returned its success dict
CircleSucceeded ==
    Done("process_circle_payment") /\ result.kind = "dict" /\ result.value.success

\* C21 as stated: the fee and the latency in the success result of
\* process_circle_payment are the values the rail selector ranks that chain
\* by, for every chain name used, in the static tables or not.
C21_AsStated ==
    CircleSucceeded =>
        /\ result.value.fee = FeeKey[result.value.chain]
        /\ result.value.estimated_time = SpeedKey[result.value.chain]

\* C21: for a chain of the static tables the fee and the latency in the
\* success result of process_circle_payment are the keys select_optimal_chain
\* ranks that chain by; for a chain outside the tables the result reports fee
\* 0 and latency 10 while the selector ranks the chain by 999 on either key.
C21_ReportedFeeAndTime ==
    CircleSucceeded =>
        LET chain == result.value.chain
        IN  IF chain \in DOMAIN chain_fees
            THEN /\ result.value.fee = FeeKey[chain]
                 /\ result.value.estimated_time = SpeedKey[chain]
            ELSE /\ result.value.fee = 0 /\ FeeKey[chain] = 99900
                 /\ result.value.estimated_time = 10 /\ SpeedKey[chain] = 999

\* the selector put a chain outside the tables behind MATIC, and the result
\* reports the fee and the latency MATIC was ranked by
C21_Witness ==
    /\ CircleSucceeded
    /\ available_chains = <<"SOL", "MATIC">>
    /\ selected = "MATIC"
    /\ result.value.chain = "MATIC"
    /\ result.value.fee = 1
    /\ result.value.estimated_time = 3

\* the key the selector ranks by under priority prio, as the tables give it
RankingKey(prio) == IF prio = "cost" THEN TableFeeOf ELSE TableSpeedOf

\* C22: select_optimal_chain is a function of the priority and of the ordered
\* list available_chains only: a call that differs only in the amount returns
\* the same chain, and among the chains tied on the ranking key the one that
\* appears earliest in available_chains is returned.
C22_AmountIndependent ==
    SelectorReturned =>
        /\ \A a \in Amounts : select_optimal_chain(a, available_chains, priority) = selected
        /\ \A i \in 1..Len(available_chains) :
              RankingKey(priority)[available_chains[i]] = RankingKey(priority)[selected]
                => \E j \in 1..i : available_chains[j] = selected

\* a "speed" call for the larger amount on a list whose second and third
\* chains tie on the latency: the second is returned
C22_Witness ==
    /\ op = "select_optimal_chain"
    /\ amount = 30
    /\ priority = "speed"
    /\ available_chains = <<"ETH", "AVAX", "ARB">>
    /\ selected = "AVAX"

====
